---- MODULE Spec2Model ----
(***************************************************************************)
(* Claude Usage Monitor: the background service worker.                    *)
(*                                                                         *)
(* Two builds of the worker are modelled, selected by `variant`:           *)
(*   "thermometer"  src/background.js      (bar icon, static error icon)   *)
(*   "circular"     src/unnamed/part_000   (arc icon, drawn error icon)    *)
(* They share the polling logic; they differ in generateIcon, in           *)
(* updateBadgeError and in the alarm-name test of the onAlarm listener.    *)
(*                                                                         *)
(* The worker is single threaded: a step of the model is one run of a      *)
(* listener or of the continuation of an await, from the point where it is *)
(* resumed to the next await (or the end).  A chrome.* call takes effect   *)
(* when it is called (calls of one worker are served in the order issued); *)
(* the promise it returns is settled in a later step.                      *)
(*                                                                         *)
(* An optional value (a JSON field that may be absent, null) is a sequence *)
(* of length 0 or 1.                                                       *)
(***************************************************************************)
EXTENDS Integers, Sequences, FiniteSets, TLC

\* ---------------------------------------------------------------- bounds
MaxCycles == 2      \* invocations of fetchAndUpdateUsage in a behaviour
MaxInits == 2       \* onInstalled / onStartup events in a behaviour
MaxPct == 101       \* largest percentage handed to generateIcon

\* ------------------------------------------------------ program constants
POLL_INTERVAL_MINUTES == 5
ALARM_NAME == "usagePoll"

Variants == {"thermometer", "circular"}

\* The organization identifiers the bootstrap endpoint may report.
Orgs == {"orgA", "orgB"}

\* "" is the falsy identifier: no cached value, null, undefined.
NoOrg == ""

None == <<>>
Some(v) == <<v>>

Max(a, b) == IF a >= b THEN a ELSE b

\* ------------------------------------------------------------- generateIcon

\* fillColor with the first threshold taken as <= 50.
fillColorLE(percentage) ==
  IF percentage <= 50 THEN "#10b981"
  ELSE IF percentage < 80 THEN "#f59e0b" ELSE "#ef4444"

\* background.js generateIcon: fillColor
fillColor(percentage) ==
  IF percentage < 50 THEN "#10b981"
  ELSE IF percentage < 80 THEN "#f59e0b" ELSE "#ef4444"

\* part_000 generateIcon: progressColor
progressColor(percentage) ==
  IF percentage < 50 THEN "#10b981"
  ELSE IF percentage < 80 THEN "#f59e0b"
  ELSE "#ef4444"

\* background.js generateIcon: the frame (four orange rectangles) and the bar.
\* Widths of the bar are in hundredths of a pixel (barMaxWidth * p / 100).
generateIconThermometer(percentage, size) ==
  LET padding == IF size <= 16 THEN 1 ELSE 2
      borderWidth == IF size <= 16 THEN 1 ELSE 2
      frameX == padding
      frameY == padding
      frameWidth == size - (padding * 2)
      frameHeight == (size * 4) \div 10
      barX == frameX + borderWidth
      barY == frameY + borderWidth
      barMaxWidth == frameWidth - (borderWidth * 2)
      barHeight == frameHeight - (borderWidth * 2)
      barWidth100 == Max(100, barMaxWidth * percentage)
  IN [ shape |-> "thermometer",
       size |-> size,
       color |-> fillColor(percentage),
       strokes |->
         << <<"#D97706", frameX, frameY, frameWidth, borderWidth>>,
            <<"#D97706", frameX, frameY, borderWidth, frameHeight>>,
            <<"#D97706", frameX + frameWidth - borderWidth, frameY,
              borderWidth, frameHeight>>,
            <<"#D97706", frameX, frameY + frameHeight - borderWidth,
              frameWidth, borderWidth>> >>,
       fill |-> IF barHeight > 0 /\ barWidth100 > 0
                THEN <<barX, barY, barWidth100, barHeight>>
                ELSE <<>>,
       text |-> "" ]

\* part_000 generateIcon: the gray track, the progress arc (its sweep is
\* percentage/100 of a turn, kept as the percentage) and, from 32 px, the text.
generateIconCircular(percentage, size) ==
  LET center == size \div 2
      radius == (size \div 2) - 2
      lineWidth == Max(2, size \div 8)
  IN [ shape |-> "circular",
       size |-> size,
       color |-> progressColor(percentage),
       strokes |-> << <<"#e5e7eb", center, center, radius, lineWidth>> >>,
       fill |-> <<center, radius, percentage, lineWidth>>,
       text |-> IF size >= 32 THEN ToString(percentage) \o "%" ELSE "" ]

generateIcon(v, percentage, size) ==
  IF v = "thermometer" THEN generateIconThermometer(percentage, size)
  ELSE generateIconCircular(percentage, size)

IconSizes == {16, 32, 48}

\* ------------------------------------------------------------ chrome.action

\* What the toolbar shows before the worker has set anything.
ManifestDefault ==
  [ icon |-> [kind |-> "manifest", path |-> "", imageData |-> <<>>],
    badgeText |-> "",
    badgeTextColor |-> "",
    badgeBackgroundColor |-> "",
    title |-> <<>> ]

\* toLocaleTimeString('en-US', {hour: 'numeric', minute: '2-digit',
\* hour12: true}) of a time given as minutes after local midnight.
toLocaleTimeString(minutes) ==
  LET hour == (minutes \div 60) % 24
      minute == minutes % 60
      hour12 == IF hour % 12 = 0 THEN 12 ELSE hour % 12
  IN ToString(hour12) \o ":" \o (IF minute < 10 THEN "0" ELSE "")
       \o ToString(minute) \o " " \o (IF hour < 12 THEN "AM" ELSE "PM")

\* The error icon: a packaged file in background.js, a gray disc with a
\* white "!" drawn at 48 px and used for every size in part_000.
errorIcon(v) ==
  IF v = "thermometer"
  THEN [kind |-> "path", path |-> "error-icon.png", imageData |-> <<>>]
  ELSE LET glyph == [ shape |-> "disc", size |-> 48, color |-> "#6b7280",
                      strokes |-> <<>>, fill |-> <<24, 22>>, text |-> "!" ]
       IN [kind |-> "imageData", path |-> "",
           imageData |-> [s \in IconSizes |-> glyph]]

errorTitle(v, message) ==
  IF v = "thermometer"
  THEN <<"Make sure you are logged in to Claude.ai!", "Error: " \o message>>
  ELSE <<"Claude Usage Monitor", "Error: " \o message>>

\* updateBadgeError that leaves the badge text of the last rendering in place.
updateBadgeErrorKeepBadge(v, d, message) ==
  [d EXCEPT !.icon = errorIcon(v), !.title = errorTitle(v, message)]

\* updateBadgeError(message): setIcon, setBadgeText(''), setTitle.  The badge
\* colours are not touched.  d is the chrome.action state before the call.
updateBadgeError(v, d, message) ==
  [d EXCEPT !.icon = errorIcon(v),
            !.badgeText = "",
            !.title = errorTitle(v, message)]

usageIcon(v, percentage) ==
  [kind |-> "imageData", path |-> "",
   imageData |-> [s \in IconSizes |-> generateIcon(v, percentage, s)]]

usageTitle(percentage, resetsAt) ==
  LET resetTimeStr == IF resetsAt # None THEN toLocaleTimeString(resetsAt[1])
                      ELSE "Unknown"
  IN << "Claude Usage Monitor",
        ToString(percentage) \o "% used",
        "Resets at " \o resetTimeStr >>

TypeErrorMessage == "Cannot read properties of null (reading 'five_hour')"

\* updateBadge with `fiveHour.utilization || 0` but without the !fiveHour test
\* (a missing window is drawn as 0%).
updateBadgeNoGuard(v, d, data) ==
  IF data = None THEN [threw |-> Some(TypeErrorMessage), action |-> d]
  ELSE LET fiveHour == data[1].five_hour
           percentage == IF fiveHour = None \/ fiveHour[1].utilization = None
                         THEN 0 ELSE fiveHour[1].utilization[1]
           resetsAt == IF fiveHour = None THEN None ELSE fiveHour[1].resets_at
       IN [threw |-> None,
           action |-> [ icon |-> usageIcon(v, percentage),
                        badgeText |-> ToString(percentage) \o "%",
                        badgeTextColor |-> "#D97706",
                        badgeBackgroundColor |-> "transparent",
                        title |-> usageTitle(percentage, resetsAt) ]]

\* updateBadge(data).  data is the parsed usage document, None for JSON null
\* (reading data.five_hour then throws a TypeError before anything is set).
\* The result is the exception thrown, if any, and the chrome.action state.
updateBadge(v, d, data) ==
  IF data = None THEN [threw |-> Some(TypeErrorMessage), action |-> d]
  ELSE LET fiveHour == data[1].five_hour
       IN IF fiveHour = None
          THEN [threw |-> None, action |-> updateBadgeError(v, d, "No data")]
          ELSE LET percentage == IF fiveHour[1].utilization = None THEN 0
                                 ELSE fiveHour[1].utilization[1]
                   resetsAt == fiveHour[1].resets_at
               IN [threw |-> None,
                   action |-> [ icon |-> usageIcon(v, percentage),
                                badgeText |-> ToString(percentage) \o "%",
                                badgeTextColor |-> "#D97706",
                                badgeBackgroundColor |-> "transparent",
                                title |-> usageTitle(percentage, resetsAt) ]]

\* ------------------------------------------------------------------ inputs

HttpStatuses == {200, 500}

\* What `await fetch(...)` settles to: a rejection (network failure) or a
\* response with a status.
FetchOutcomes ==
  {[rejected |-> TRUE, status |-> 0]}
    \cup {[rejected |-> FALSE, status |-> s] : s \in HttpStatuses}

\* response.ok
ok(response) == response.status >= 200 /\ response.status <= 299

Membership(uuid) == [organization |-> Some([uuid |-> uuid])]

\* Bodies of the bootstrap document; None is the JSON value null.
BootstrapData ==
  { None,
    Some([account |-> None]),
    Some([account |-> Some([memberships |-> <<>>])]),
    Some([account |-> Some([memberships |-> <<[organization |-> None]>>])]),
    Some([account |-> Some([memberships |-> <<Membership("orgA")>>])]),
    Some([account |-> Some([memberships |->
                              <<Membership("orgB"), Membership("orgA")>>])]) }

\* Bodies of the usage document; None is the JSON value null.  resets_at is
\* the reset time in minutes after local midnight.
UsageData ==
  { None,
    Some([five_hour |-> None]),
    Some([five_hour |-> Some([utilization |-> None, resets_at |-> None])]),
    Some([five_hour |-> Some([utilization |-> Some(50), resets_at |-> Some(1319)])]) }

\* What `await response.json()` settles to: a SyntaxError or the parsed body.
JsonOutcomes(bodies) ==
  {[failed |-> TRUE, data |-> None]}
    \cup {[failed |-> FALSE, data |-> b] : b \in bodies}

FetchErrorMessage == "Failed to fetch"
SyntaxErrorMessage == "Unexpected token < in JSON at position 0"

\* data?.account?.memberships?.[0]?.organization?.uuid, NoOrg when undefined
ExtractOrgId(data) ==
  IF data = None THEN NoOrg
  ELSE IF data[1].account = None THEN NoOrg
  ELSE IF Len(data[1].account[1].memberships) = 0 THEN NoOrg
  ELSE IF data[1].account[1].memberships[1].organization = None THEN NoOrg
  ELSE data[1].account[1].memberships[1].organization[1].uuid

\* -------------------------------------------------------------------- state

VARIABLES
  variant,      \* which build of the worker runs
  orgIdStore,   \* chrome.storage.local 'orgId' (NoOrg: key absent)
  alarms,       \* chrome.alarms: the registered alarms
  action,       \* chrome.action: icon, badge text and colours, title
  cycles,       \* the invocations of fetchAndUpdateUsage, by number
  lastDone,     \* Some(the invocation that finished last, as it finished)
  nCycles,      \* how many invocations have started
  inits,        \* the invocations of initializeMonitoring, in order
  fired,        \* how many times the onAlarm listener has run
  writes,       \* log of chrome.storage.local.set({orgId}) calls: the value
                \* and what the caller had read from the cache
  iconCall      \* arguments and result of a generateIcon call (SpecIcon)

vars == <<variant, orgIdStore, alarms, action, cycles, lastDone, nCycles,
          inits, fired, writes, iconCall>>

CycleIds == 1..MaxCycles

\* A cycle's position (pc), its locals (cached, uuid, orgId) and a record of
\* what it did: requests issued, failures met, the chrome.action state it left.
IdleCycle ==
  [ pc |-> "idle",
    cached |-> NoOrg,          \* cached.orgId in getOrganizationId
    uuid |-> NoOrg,            \* orgId in getOrganizationId
    orgId |-> NoOrg,           \* orgId in fetchAndUpdateUsage
    afterStore |-> FALSE,      \* started after a storage write had been made
    bootstrapRequests |-> 0,   \* requests to /api/bootstrap
    usageUrls |-> <<>>,        \* identifiers of the usage URLs requested
    httpFailed |-> FALSE,      \* a response with a non-success status
    resolveFailed |-> FALSE,   \* getOrganizationId returned null
    data |-> None,             \* Some(parsed usage document)
    shown |-> None ]           \* Some(chrome.action state it rendered)

\* A finished invocation: its locals are gone.
DoneCycle == [IdleCycle EXCEPT !.pc = "done"]

InProgress(cy) == cy.pc \notin {"idle", "done"}

NoIconCall == [percentage |-> 0, size |-> 0, image |-> None]

Init ==
  /\ variant \in Variants
  /\ orgIdStore = NoOrg
  /\ alarms = <<>>
  /\ action = ManifestDefault
  /\ cycles = [c \in CycleIds |-> IdleCycle]
  /\ lastDone = None
  /\ nCycles = 0
  /\ inits = <<>>
  /\ fired = 0
  /\ writes = <<>>
  /\ iconCall = NoIconCall

\* ------------------------------------------------------------ chrome.alarms

\* chrome.alarms.clear(name)
alarmsClear(as, name) == SelectSeq(as, LAMBDA a : a.name # name)

\* chrome.alarms.create(name, {periodInMinutes}): an alarm of the same name is
\* cancelled and replaced.
alarmsCreate(as, name, periodInMinutes) ==
  Append(alarmsClear(as, name),
         [name |-> name, periodInMinutes |-> periodInMinutes])

\* The create step with delayInMinutes in place of periodInMinutes: a
\* one-shot alarm, no period.
createOneShotAlarm(as) == alarmsCreate(as, ALARM_NAME, 0)

\* initializeMonitoring, the create step
createPollAlarm(as) == alarmsCreate(as, ALARM_NAME, POLL_INTERVAL_MINUTES)

\* -------------------------------------------------------- fetchAndUpdateUsage

\* The catch block of fetchAndUpdateUsage: updateBadgeError(error.message).
catchFetchAndUpdateUsage(v, cy, d, message) ==
  LET shown == updateBadgeError(v, d, message)
  IN [ cycle |-> [cy EXCEPT !.pc = "done", !.shown = Some(shown)],
       action |-> shown ]

\* fetchAndUpdateUsage after getOrganizationId, without the !orgId test.
afterGetOrganizationIdNoTest(v, cy, d, orgId) ==
  [ cycle |-> [cy EXCEPT !.orgId = orgId,
                         !.resolveFailed = (orgId = NoOrg),
                         !.usageUrls = Append(@, orgId),
                         !.pc = "awaitUsageFetch"],
    action |-> d ]

\* fetchAndUpdateUsage from the point where `await getOrganizationId()`
\* yields orgId to the call of fetch on the usage URL.
afterGetOrganizationId(v, cy, d, orgId) ==
  IF orgId = NoOrg
  THEN LET shown == updateBadgeError(v, d, "No org ID")
       IN [ cycle |-> [cy EXCEPT !.resolveFailed = TRUE,
                                 !.pc = "done",
                                 !.shown = Some(shown)],
            action |-> shown ]
  ELSE [ cycle |-> [cy EXCEPT !.orgId = orgId,
                              !.usageUrls = Append(@, orgId),
                              !.pc = "awaitUsageFetch"],
         action |-> d ]

\* The call of fetchAndUpdateUsage up to its first await: getOrganizationId
\* calls chrome.storage.local.get('orgId').
startCycle(cy) ==
  [cy EXCEPT !.pc = "awaitStorageGet",
             !.cached = orgIdStore,
             !.afterStore = (writes # <<>>)]

PendingInits == {i \in DOMAIN inits : inits[i].pc = "awaitClear"}

\* Room for one more cycle beside those the pending initializations will start.
CanStartCycle == nCycles + Cardinality(PendingInits) < MaxCycles

\* ------------------------------------------------------------------ actions

\* The call of initializeMonitoring up to its first await:
\* `await chrome.alarms.clear(ALARM_NAME)`.
initializeMonitoring ==
  /\ alarms' = alarmsClear(alarms, ALARM_NAME)
  /\ inits' = Append(inits, [pc |-> "awaitClear", cycle |-> 0])
  /\ UNCHANGED <<variant, orgIdStore, action, cycles, lastDone, nCycles,
                 fired, writes, iconCall>>

\* Room for one more run of initializeMonitoring and for its cycle.
CanInitialize == Len(inits) < MaxInits /\ CanStartCycle

\* chrome.runtime.onInstalled listener
OnInstalled ==
  /\ CanInitialize
  /\ initializeMonitoring

\* chrome.runtime.onStartup listener
OnStartup ==
  /\ CanInitialize
  /\ initializeMonitoring

\* initializeMonitoring resumed after the clear, with the fetch left out.
ResumeInitNoFetch(i) ==
  /\ i \in PendingInits
  /\ alarms' = createPollAlarm(alarms)
  /\ inits' = [inits EXCEPT ![i].pc = "started"]
  /\ UNCHANGED <<variant, orgIdStore, action, cycles, lastDone, nCycles,
                 fired, writes, iconCall>>

\* initializeMonitoring resumed after the clear: create the alarm, call
\* fetchAndUpdateUsage (which runs to its first await).
ResumeInit(i) ==
  /\ i \in PendingInits
  /\ alarms' = createPollAlarm(alarms)
  /\ nCycles' = nCycles + 1
  /\ cycles' = [cycles EXCEPT ![nCycles + 1] = startCycle(@)]
  /\ inits' = [inits EXCEPT ![i].pc = "started", ![i].cycle = nCycles + 1]
  /\ UNCHANGED <<variant, orgIdStore, action, lastDone, fired, writes,
                 iconCall>>

\* The test the onAlarm listener makes of the alarm it is given: part_000
\* compares the name, background.js takes any alarm.
alarmAccepted(v, alarm) == v = "thermometer" \/ alarm.name = ALARM_NAME

\* onAlarm listener: a registered alarm fires.
OnAlarm ==
  /\ CanStartCycle
  /\ \E k \in DOMAIN alarms : alarmAccepted(variant, alarms[k])
  /\ fired' = fired + 1
  /\ nCycles' = nCycles + 1
  /\ cycles' = [cycles EXCEPT ![nCycles + 1] = startCycle(@)]
  /\ UNCHANGED <<variant, orgIdStore, alarms, action, lastDone, inits,
                 writes, iconCall>>

\* What is kept of an invocation when it has finished: what it did, not its
\* locals.
Finished(cy) ==
  [cy EXCEPT !.cached = NoOrg, !.orgId = NoOrg, !.afterStore = FALSE,
             !.bootstrapRequests = 0]

\* The outcome r of a step of invocation c: its record and chrome.action.
Apply(c, r) ==
  /\ cycles' = [cycles EXCEPT
                  ![c] = IF r.cycle.pc = "done" THEN DoneCycle ELSE r.cycle]
  /\ lastDone' = IF r.cycle.pc = "done" THEN Some(Finished(r.cycle))
                 ELSE lastDone
  /\ action' = r.action

\* getOrganizationId resumed after storage.get, with the cache test left out.
StorageGetSettledNoCache(c) ==
  /\ cycles[c].pc = "awaitStorageGet"
  /\ cycles' = [cycles EXCEPT ![c].pc = "awaitBootstrapFetch",
                              ![c].bootstrapRequests = @ + 1]
  /\ UNCHANGED <<variant, orgIdStore, alarms, action, lastDone, nCycles, inits,
                 fired, writes, iconCall>>

\* getOrganizationId resumed after `await chrome.storage.local.get('orgId')`:
\* return the cached identifier, or request the bootstrap document.
StorageGetSettled(c) ==
  /\ cycles[c].pc = "awaitStorageGet"
  /\ IF cycles[c].cached # NoOrg
     THEN Apply(c, afterGetOrganizationId(variant, cycles[c], action,
                                          cycles[c].cached))
     ELSE /\ cycles' = [cycles EXCEPT ![c].pc = "awaitBootstrapFetch",
                                      ![c].bootstrapRequests = @ + 1]
          /\ UNCHANGED <<action, lastDone>>
  /\ UNCHANGED <<variant, orgIdStore, alarms, nCycles, inits, fired, writes,
                 iconCall>>

\* getOrganizationId resumed after `await fetch(bootstrap)`: a rejection or a
\* non-success status is thrown, caught, and null is returned.
BootstrapFetchSettled(c, response) ==
  /\ cycles[c].pc = "awaitBootstrapFetch"
  /\ IF response.rejected
     THEN Apply(c, afterGetOrganizationId(variant, cycles[c], action, NoOrg))
     ELSE IF ~ok(response)
     THEN Apply(c, afterGetOrganizationId(
                     variant, [cycles[c] EXCEPT !.httpFailed = TRUE],
                     action, NoOrg))
     ELSE /\ cycles' = [cycles EXCEPT ![c].pc = "awaitBootstrapJson"]
          /\ UNCHANGED <<action, lastDone>>
  /\ UNCHANGED <<variant, orgIdStore, alarms, nCycles, inits, fired, writes,
                 iconCall>>

\* getOrganizationId resumed after response.json(), with the !orgId test
\* left out: whatever was extracted is stored and returned.
BootstrapJsonSettledNoTest(c, json) ==
  /\ cycles[c].pc = "awaitBootstrapJson"
  /\ LET orgId == IF json.failed THEN NoOrg ELSE ExtractOrgId(json.data)
     IN IF json.failed
        THEN /\ Apply(c, afterGetOrganizationId(variant, cycles[c], action,
                                                NoOrg))
             /\ UNCHANGED <<orgIdStore, writes>>
        ELSE /\ orgIdStore' = orgId
             /\ writes' = Append(writes, [value |-> orgId,
                                          cached |-> cycles[c].cached])
             /\ cycles' = [cycles EXCEPT ![c].pc = "awaitStorageSet",
                                         ![c].uuid = orgId]
             /\ UNCHANGED <<action, lastDone>>
  /\ UNCHANGED <<variant, alarms, nCycles, inits, fired, iconCall>>

\* getOrganizationId resumed after `await response.json()`: extract the
\* identifier; when present, call chrome.storage.local.set({orgId}).
BootstrapJsonSettled(c, json) ==
  /\ cycles[c].pc = "awaitBootstrapJson"
  /\ LET orgId == IF json.failed THEN NoOrg ELSE ExtractOrgId(json.data)
     IN IF orgId = NoOrg
        THEN /\ Apply(c, afterGetOrganizationId(variant, cycles[c], action,
                                                NoOrg))
             /\ UNCHANGED <<orgIdStore, writes>>
        ELSE /\ orgIdStore' = orgId
             /\ writes' = Append(writes, [value |-> orgId,
                                          cached |-> cycles[c].cached])
             /\ cycles' = [cycles EXCEPT ![c].pc = "awaitStorageSet",
                                         ![c].uuid = orgId]
             /\ UNCHANGED <<action, lastDone>>
  /\ UNCHANGED <<variant, alarms, nCycles, inits, fired, iconCall>>

\* getOrganizationId resumed after `await chrome.storage.local.set`: the
\* identifier is returned to fetchAndUpdateUsage.
StorageSetSettled(c) ==
  /\ cycles[c].pc = "awaitStorageSet"
  /\ Apply(c, afterGetOrganizationId(variant, cycles[c], action,
                                     cycles[c].uuid))
  /\ UNCHANGED <<variant, orgIdStore, alarms, nCycles, inits, fired, writes,
                 iconCall>>

\* fetchAndUpdateUsage resumed after the usage fetch, with the response.ok
\* test left out.
UsageFetchSettledNoOkTest(c, response) ==
  /\ cycles[c].pc = "awaitUsageFetch"
  /\ IF response.rejected
     THEN Apply(c, catchFetchAndUpdateUsage(variant, cycles[c], action,
                                            FetchErrorMessage))
     ELSE /\ cycles' = [cycles EXCEPT ![c].pc = "awaitUsageJson",
                                      ![c].httpFailed = ~ok(response)]
          /\ UNCHANGED <<action, lastDone>>
  /\ UNCHANGED <<variant, orgIdStore, alarms, nCycles, inits, fired, writes,
                 iconCall>>

\* fetchAndUpdateUsage resumed after `await fetch(usage)`: a rejection or a
\* non-success status (Error `HTTP ${status}`) goes to the catch block.
UsageFetchSettled(c, response) ==
  /\ cycles[c].pc = "awaitUsageFetch"
  /\ IF response.rejected
     THEN Apply(c, catchFetchAndUpdateUsage(variant, cycles[c], action,
                                            FetchErrorMessage))
     ELSE IF ~ok(response)
     THEN Apply(c, catchFetchAndUpdateUsage(
                     variant, [cycles[c] EXCEPT !.httpFailed = TRUE], action,
                     "HTTP " \o ToString(response.status)))
     ELSE /\ cycles' = [cycles EXCEPT ![c].pc = "awaitUsageJson"]
          /\ UNCHANGED <<action, lastDone>>
  /\ UNCHANGED <<variant, orgIdStore, alarms, nCycles, inits, fired, writes,
                 iconCall>>

\* fetchAndUpdateUsage resumed after `await response.json()`: updateBadge(data);
\* a SyntaxError, or a TypeError from updateBadge, goes to the catch block.
UsageJsonSettled(c, json) ==
  /\ cycles[c].pc = "awaitUsageJson"
  /\ IF json.failed
     THEN Apply(c, catchFetchAndUpdateUsage(variant, cycles[c], action,
                                            SyntaxErrorMessage))
     ELSE LET cy == [cycles[c] EXCEPT !.data = Some(json.data)]
              r == updateBadge(variant, action, json.data)
          IN IF r.threw # None
             THEN Apply(c, catchFetchAndUpdateUsage(variant, cy, r.action,
                                                    r.threw[1]))
             ELSE Apply(c, [ cycle |-> [cy EXCEPT !.pc = "done",
                                                  !.shown = Some(r.action)],
                             action |-> r.action ])
  /\ UNCHANGED <<variant, orgIdStore, alarms, nCycles, inits, fired, writes,
                 iconCall>>

Next ==
  \/ OnInstalled
  \/ OnStartup
  \/ OnAlarm
  \/ \E i \in 1..MaxInits : ResumeInit(i)
  \/ \E c \in CycleIds : StorageGetSettled(c)
  \/ \E c \in CycleIds : \E r \in FetchOutcomes : BootstrapFetchSettled(c, r)
  \/ \E c \in CycleIds : \E j \in JsonOutcomes(BootstrapData) :
       BootstrapJsonSettled(c, j)
  \/ \E c \in CycleIds : StorageSetSettled(c)
  \/ \E c \in CycleIds : \E r \in FetchOutcomes : UsageFetchSettled(c, r)
  \/ \E c \in CycleIds : \E j \in JsonOutcomes(UsageData) :
       UsageJsonSettled(c, j)

Spec == Init /\ [][Next]_vars

\* ----------------------------------------------- generateIcon on its own

\* A call generateIcon(percentage, size) about to be made.
InitIcon ==
  /\ variant \in Variants
  /\ orgIdStore = NoOrg
  /\ alarms = <<>>
  /\ action = ManifestDefault
  /\ cycles = [c \in CycleIds |-> IdleCycle]
  /\ lastDone = None
  /\ nCycles = 0
  /\ inits = <<>>
  /\ fired = 0
  /\ writes = <<>>
  /\ \E p \in 0..MaxPct : \E size \in IconSizes :
       iconCall = [percentage |-> p, size |-> size, image |-> None]

\* The call returns the raster.
DrawIcon ==
  /\ iconCall.image = None
  /\ iconCall' = [iconCall EXCEPT
                    !.image = Some(generateIcon(variant, iconCall.percentage,
                                                iconCall.size))]
  /\ UNCHANGED <<variant, orgIdStore, alarms, action, cycles, lastDone,
                 nCycles, inits, fired, writes>>

NextIcon == DrawIcon

SpecIcon == InitIcon /\ [][NextIcon]_vars

\* ------------------------------------------------------------- properties

\* Percentages a usage rendering can show with the documents of UsageData.
ShownPercentages == {0, 50}

\* The complete error rendering: error icon, empty badge text, error tooltip.
IsErrorState(d) ==
  /\ d.icon = errorIcon(variant)
  /\ d.badgeText = ""
  /\ Len(d.title) = 2
  /\ d.title[1] = errorTitle(variant, "")[1]
  /\ d.title[2] \in { "Error: No org ID", "Error: No data",
                      "Error: HTTP 500", "Error: " \o FetchErrorMessage,
                      "Error: " \o SyntaxErrorMessage,
                      "Error: " \o TypeErrorMessage }

\* The complete usage rendering of percentage p: icon, badge text, tooltip.
IsUsageState(d, p) ==
  /\ d.icon = usageIcon(variant, p)
  /\ d.badgeText = ToString(p) \o "%"
  /\ Len(d.title) = 3
  /\ d.title[2] = ToString(p) \o "% used"

HasFinished == lastDone # None

Last == lastDone[1]

RunningCycles == {c \in CycleIds : InProgress(cycles[c])}

StartedInits == {i \in DOMAIN inits : inits[i].pc = "started"}

\* C1: a cycle in which the bootstrap or the usage request returned a
\* non-success status has finished with the error state rendered, and no
\* usage rendering is shown by it.
C1_HttpFailureRendersError ==
  HasFinished /\ Last.httpFailed =>
    /\ Last.shown = Some(action)
    /\ IsErrorState(action)
    /\ \A p \in ShownPercentages : ~IsUsageState(action, p)

C1_Witness ==
  /\ HasFinished
  /\ Last.httpFailed
  /\ Last.usageUrls # <<>>
  /\ action.title[2] = "Error: HTTP 500"

\* C2: from the first successful bootstrap on, the identifier is stored under
\* 'orgId', and every cycle started afterwards takes the identifier from the
\* cache and sends no request to the bootstrap endpoint.
C2_CachedAfterBootstrap ==
  /\ writes # <<>> =>
       orgIdStore = writes[Len(writes)].value /\ orgIdStore \in Orgs
  /\ \A c \in CycleIds :
       cycles[c].afterStore =>
         /\ cycles[c].cached # NoOrg
         /\ cycles[c].bootstrapRequests = 0
         /\ cycles[c].pc \in {"awaitStorageGet", "awaitUsageFetch",
                              "awaitUsageJson"}
         /\ cycles[c].usageUrls # <<>> => cycles[c].orgId = cycles[c].cached

C2_Witness ==
  \E c \in CycleIds :
    /\ cycles[c].afterStore
    /\ cycles[c].pc = "awaitUsageFetch"
    /\ cycles[c].orgId = orgIdStore
    /\ RunningCycles = {c}

MissingWindow(data) == data = None \/ data[1].five_hour = None

MissingUtilization(data) ==
  ~MissingWindow(data) /\ data[1].five_hour[1].utilization = None

\* C3 as stated: a usage document without the five_hour window, or without
\* the utilization inside it, ends in the error state.
C3_Original ==
  HasFinished /\ Last.data # None
    /\ (MissingWindow(Last.data[1]) \/ MissingUtilization(Last.data[1]))
    => IsErrorState(action)

\* C3 amended: without the five_hour window (or with a null document) the
\* error state is rendered; with the window but without utilization the usage
\* state of the default percentage 0 is rendered.
C3_MissingFieldRendering ==
  HasFinished /\ Last.data # None =>
    /\ MissingWindow(Last.data[1]) => IsErrorState(action)
    /\ MissingUtilization(Last.data[1]) => IsUsageState(action, 0)

C3_Witness ==
  /\ HasFinished
  /\ Last.data # None
  /\ MissingUtilization(Last.data[1])
  /\ action.badgeText = "0%"

\* C4 as stated: at most one cycle is in progress at any time.
C4_Original == Cardinality(RunningCycles) <= 1

\* C4 amended: every listener run starts its own cycle at once, whether or
\* not another is in progress (cycles started = alarm firings + resumed
\* initializations), and within one cycle the write of the cached identifier
\* comes after that cycle's own read found the cache empty.
C4_CyclesPerEvent ==
  /\ nCycles = fired + Cardinality(StartedInits)
  /\ \A c \in CycleIds : cycles[c].pc # "idle" <=> c <= nCycles
  /\ \A c \in CycleIds :
       cycles[c].uuid # NoOrg =>
         /\ cycles[c].cached = NoOrg
         /\ cycles[c].bootstrapRequests = 1

C4_Witness ==
  \E c1, c2 \in CycleIds :
    /\ c1 # c2
    /\ cycles[c1].pc = "awaitStorageSet"
    /\ cycles[c2].pc = "awaitBootstrapFetch"

\* C6 as stated: the cached identifier changes at most once, and a cycle
\* that ends in error has not changed it.
C6_Original ==
  /\ Len(writes) <= 1
  /\ HasFinished /\ IsErrorState(action) => Last.uuid = NoOrg

\* C6 amended: the cached identifier is never cleared; it is written only by
\* a cycle that had read the cache empty, with an identifier of its bootstrap
\* response; a cycle that fails to resolve the identifier has not written it.
C6_WritesOnlyFromEmptyRead ==
  /\ orgIdStore = IF writes = <<>> THEN NoOrg ELSE writes[Len(writes)].value
  /\ \A k \in DOMAIN writes :
       writes[k].cached = NoOrg /\ writes[k].value \in Orgs
  /\ HasFinished /\ Last.resolveFailed => Last.uuid = NoOrg

C6_Witness ==
  /\ Len(writes) = 2
  /\ writes[1].value # writes[2].value
  /\ orgIdStore = writes[2].value

\* C7: once the worker has rendered, icon, badge text and tooltip are
\* together the error rendering or together the usage rendering of one
\* percentage; both kinds of error give the same icon and the same empty badge.
C7_NeverMixed ==
  IF HasFinished
  THEN \/ IsErrorState(action)
       \/ \E p \in ShownPercentages : IsUsageState(action, p)
  ELSE action = ManifestDefault

\* An error rendering that follows a usage rendering (the badge colours are
\* those the usage rendering set).
C7_Witness ==
  /\ HasFinished
  /\ IsErrorState(action)
  /\ action.badgeTextColor = "#D97706"

\* C9: a usage request is issued only with the identifier resolved in the
\* same cycle, and its URL is built from it; when the identifier is not
\* resolved the cycle issues no usage request and renders 'No org ID'.
C9_UsageAfterResolution ==
  /\ \A c \in CycleIds :
       /\ cycles[c].pc \in {"awaitUsageFetch", "awaitUsageJson"} <=>
            cycles[c].usageUrls # <<>>
       /\ cycles[c].usageUrls # <<>> =>
            /\ cycles[c].usageUrls = <<cycles[c].orgId>>
            /\ cycles[c].orgId \in Orgs
            /\ cycles[c].orgId \in {cycles[c].cached, cycles[c].uuid}
  /\ HasFinished =>
       IF Last.resolveFailed
       THEN /\ Last.usageUrls = <<>>
            /\ IsErrorState(action)
            /\ action.title[2] = "Error: No org ID"
       ELSE Len(Last.usageUrls) = 1 /\ Last.usageUrls[1] \in Orgs

C9_Witness ==
  /\ HasFinished
  /\ Last.resolveFailed
  /\ Last.httpFailed
  /\ action.title[2] = "Error: No org ID"
  /\ \E c \in CycleIds : cycles[c].usageUrls = <<"orgA">>

PollAlarms == {k \in DOMAIN alarms : alarms[k].name = ALARM_NAME}

\* C10: at most one 'usagePoll' alarm is registered; when an
\* initializeMonitoring has made its create step and none is between its
\* clear and its create, exactly that alarm is registered, with period
\* POLL_INTERVAL_MINUTES; each run of the onAlarm listener has started a cycle.
C10_OnePollAlarm ==
  /\ Cardinality(PollAlarms) <= 1
  /\ StartedInits # {} /\ PendingInits = {} =>
       alarms = <<[name |-> "usagePoll", periodInMinutes |-> 5]>>
  /\ fired <= nCycles
  /\ fired > 0 => StartedInits # {}

C10_Witness ==
  /\ Cardinality(StartedInits) = 2
  /\ Len(alarms) = 1
  /\ RunningCycles = {1, 2}

====
